---- MODULE Spec2Model ----
(***************************************************************************)
(* Attendance form (src/src/pages/index.js): the IndexedDB record store    *)
(* adapter, the App component's state, its handlers, its effects and its   *)
(* timers.                                                                 *)
(*                                                                         *)
(* Texts are sequences of fragments: a text is cut so that every place     *)
(* where one of the substrings the code searches for ('success',           *)
(* 'confirm', 'SURE', 'Click the trash icon again') could start or end is  *)
(* a fragment boundary, and String.includes is contiguous-subsequence      *)
(* search on the fragments.                                                *)
(*                                                                         *)
(* React is modelled as it schedules this component: a handler, a timer    *)
(* callback or the continuation of an await runs to its next await, its    *)
(* state updates are applied as one batch, the component re-renders and    *)
(* the effects whose dependencies changed run (cleanup, then body), all    *)
(* in one step.  User events reach the handlers of the last render, and    *)
(* only through elements that render mounts and enables.                   *)
(***************************************************************************)
EXTENDS Integers, Sequences, FiniteSets, Bags, TLC

VARIABLES
    store,              \* IndexedDB object store 'names': the set of records
    nextId,             \* its key generator (autoIncrement)
    now,                \* Date.now()
    formData,           \* useState(initialFormData)
    storedRecords,      \* useState([])
    message,            \* useState('')
    isDBReady,          \* useState(false)
    confirmClear,       \* useState(false)
    confirmDeleteId,    \* useState(null)
    currentPage,        \* useState('setup')
    signatureCaptured,  \* useState(false)
    canvas,             \* the canvas behind canvasRef: "none", "blank", "ink"
    isDrawing,          \* isDrawingRef.current
    inflight,           \* the bag of adapter calls made and not yet settled
    timers,             \* live setTimeout timers, oldest first
    assigned,           \* history: the keys the key generator has handed out
    last                \* history: the step taken last and the confirmations before it

vars == <<store, nextId, now, formData, storedRecords, message, isDBReady,
          confirmClear, confirmDeleteId, currentPage, signatureCaptured,
          canvas, isDrawing, inflight, timers, assigned, last>>

----------------------------------------------------------------------------
(* Bounds *)

MaxId == 3          \* keys the key generator may hand out
MaxTime == 1        \* clock values 0..MaxTime
MaxLoad == 4        \* storage operations a user event may leave pending
MaxBurst == 3       \* the same in SpecBurst and SpecSubmit
MaxEdit == 1        \* the same in SpecEdit
MaxCalls == 2       \* adapter calls pending at once in SpecAdapter

\* confirmDeleteId = null; keys start at 1
NoId == 0

----------------------------------------------------------------------------
(* Texts *)

EmptyText == <<>>

\* String.prototype.includes
Includes(text, needle) ==
    \E i \in 0..(Len(text) - Len(needle)) :
        \A j \in 1..Len(needle) : text[i + j] = needle[j]

RECURSIVE TrimLeft(_)
TrimLeft(text) ==
    IF text # <<>> /\ Head(text) = " " THEN TrimLeft(Tail(text)) ELSE text

RECURSIVE TrimRight(_)
TrimRight(text) ==
    IF text # <<>> /\ text[Len(text)] = " "
    THEN TrimRight(SubSeq(text, 1, Len(text) - 1)) ELSE text

\* String.prototype.trim
Trim(text) == TrimRight(TrimLeft(text))

IDB_SUCCESS_MESSAGE == <<"Record saved ", "success", "fully to IndexedDB.">>
IDB_DELETE_MESSAGE == <<"Record deleted ", "success", "fully.">>
IDB_CLEAR_ALL_MESSAGE == <<"All records cleared ", "success", "fully.">>
IDB_ERROR_MESSAGE == <<"Could not access IndexedDB. Check console for details.">>

FieldsMessage == <<"Please fill in all required fields (indicated by *).">>
SignatureMessage == <<"Please provide a signature in section 6.">>
NoCanvasMessage == <<"Error: Signature canvas not found.">>
NotReadyMessage == <<"Database not ready. Cannot save.">>
DeleteFallbackMessage == <<"Error deleting record.">>
ClearFallbackMessage == <<"Error clearing all records.">>

\* handleDelete's first-click message for the record named recordName
DeleteWarning(recordName) ==
    <<"Click the ", "icon again", " next to \"">> \o recordName
        \o <<"\" to CONFIRM deletion. This action is irreversible.">>

ClearWarning ==
    <<"ARE YOU ", "SURE", "? Click this button again to CONFIRM deleting ALL records.">>

\* the substrings the code searches the message for
SuccessNeedle == <<"success">>
ConfirmNeedle == <<"confirm">>
SureNeedle == <<"SURE">>
TrashNeedle == <<"Click the ", "trash ", "icon again">>

----------------------------------------------------------------------------
(* Inputs *)

\* What the user enters.  A text input is emptied or given one sample text; the
\* radios and the checkboxes are the ones FormView renders.  SpecAdapter and
\* SpecSubmit use texts of other shapes.
NameChoices == {EmptyText, <<"Bea">>}
DesignationChoices == {EmptyText, <<"Engineer">>}
DivisionChoices == {EmptyText, <<"R&D">>}
SexChoices == {"M", "F"}
StatusNames == {"pwd", "senior", "osy"}
Pages == {"setup", "form", "records"}

\* the values e.target.value can take for the input named name
InputChoices(name) ==
    CASE name = "completeName" -> NameChoices
      [] name = "designation" -> DesignationChoices
      [] name = "division" -> DivisionChoices
      [] name = "sex" -> SexChoices

InputNames == {"completeName", "designation", "division", "sex"}

\* event.target.error.message of a failed store request
RawErrors == {<<"The operation failed for reasons unrelated to the database itself.">>}

\* How a storage operation ends: done; openDB rejected; the store request failed;
\* or the request succeeded and its transaction aborted afterwards (no function of
\* the adapter listens to its transaction: the promise settles in the request's
\* onsuccess or onerror).
Outcomes == [kind : {"ok", "openFail", "abort"}, text : {EmptyText}]
                \cup [kind : {"reqFail"}, text : RawErrors]

\* the adapter's promise resolves: request.onsuccess has run
Resolves(outcome) == outcome.kind \in {"ok", "abort"}

initialFormData ==
    [completeName |-> EmptyText, sex |-> "M", designation |-> EmptyText,
     division |-> EmptyText,
     status |-> [pwd |-> FALSE, senior |-> FALSE, osy |-> FALSE],
     signature |-> "null"]

----------------------------------------------------------------------------
(* Record store adapter *)

Ids(records) == {r.id : r \in records}

RECURSIVE InKeyOrder(_)
\* mutant: the result of store.getAll() is resolved as it is, oldest first
InKeyOrder(records) ==
    IF records = {} THEN <<>>
    ELSE LET low == CHOOSE r \in records : \A q \in records : r.id <= q.id
         IN  <<low>> \o InKeyOrder(records \ {low})

RECURSIVE Descending(_)
\* store.getAll() returns the records in key order; getAllRecords reverses it
Descending(records) ==
    IF records = {} THEN <<>>
    ELSE LET top == CHOOSE r \in records : \A q \in records : q.id <= r.id
         IN  <<top>> \o Descending(records \ {top})

getAllRecords(records) == Descending(records)

\* { ...recordData, timestamp: Date.now() } stored under the generated key
StoredObject(recordData, key, time) ==
    [id |-> key, completeName |-> recordData.completeName, sex |-> recordData.sex,
     designation |-> recordData.designation, division |-> recordData.division,
     status |-> recordData.status, signature |-> recordData.signature,
     timestamp |-> time]

\* createObjectStore(STORE_NAME, { keyPath: 'id', autoIncrement: true }): the key of
\* a new record is the key generator's current number
GeneratedKey(records, counter) == counter

addRecord(records, recordData, key, time) ==
    records \cup {StoredObject(recordData, key, time)}

\* mutant: a delete of an absent key removes the oldest record
deleteRecordOrOldest(records, id) ==
    IF id \in Ids(records) THEN {r \in records : r.id # id}
    ELSE {r \in records : \E q \in records : q.id < r.id}

deleteRecord(records, id) == {r \in records : r.id # id}

deleteAllRecords(records) == {}

\* what the adapter's caller finds in error.message
ThrownMessage(outcome) ==
    IF outcome.kind = "openFail" THEN IDB_ERROR_MESSAGE ELSE outcome.text

\* error.message || fallback
OrElse(text, fallback) == IF text = EmptyText THEN fallback ELSE text

----------------------------------------------------------------------------
(* Operations in flight and timers *)

\* the rec field of an operation that carries no record
NoRecord == initialFormData

\* fetchRecords' test for keeping the message, on the message its closure holds
KeepsMessage(msg) ==
    \/ Includes(msg, SuccessNeedle)
    \/ Includes(msg, ConfirmNeedle)
    \/ Includes(msg, SureNeedle)

\* An operation carries what its caller's closure holds.  msg is the message of the
\* render that made the fetchRecords the caller uses; all fetchRecords ever reads of
\* it is the test above, which is what the operation records as keep.  An adapter
\* call waits twice: for openDB() (stage "open"), then for its store request (stage
\* "req"); time is the Date.now() addRecord reads between the two, 0 until then.
FetchOp(msg) ==
    [op |-> "fetch", id |-> NoId, rec |-> NoRecord, keep |-> KeepsMessage(msg),
     stage |-> "open", time |-> 0]
AddOp(rec, msg) ==
    [op |-> "add", id |-> NoId, rec |-> rec, keep |-> KeepsMessage(msg),
     stage |-> "open", time |-> 0]
DeleteOp(id, msg) ==
    [op |-> "delete", id |-> id, rec |-> NoRecord, keep |-> KeepsMessage(msg),
     stage |-> "open", time |-> 0]
ClearOp(msg) ==
    [op |-> "clear", id |-> NoId, rec |-> NoRecord, keep |-> KeepsMessage(msg),
     stage |-> "open", time |-> 0]

\* the fetchRecords() call a handler makes after its await, with its stale closure
Refetch(op) ==
    [op |-> "fetch", id |-> NoId, rec |-> NoRecord, keep |-> op.keep,
     stage |-> "open", time |-> 0]

\* the calls q with the call op made, and with one call op settled
Issue(q, op) == q (+) SetToBag({op})
Without(q, op) == q (-) SetToBag({op})

\* how many of the calls q are calls of the function named op
Calls(q, op) == BagCardinality([o \in {c \in BagToSet(q) : c.op = op} |-> q[o]])

Timer(kind, id, msg) == [kind |-> kind, id |-> id, msg |-> msg]

\* mutant: clearTimeout is given a stale handle and clears nothing
ClearTimeoutMisses(ts, kind) == ts

\* clearTimeout(timer) in an effect's cleanup: the timer that effect armed
\* last, if it is still live
ClearTimeout(ts, kind) ==
    LET live == {i \in 1..Len(ts) : ts[i].kind = kind}
    IN  IF live = {} THEN ts
        ELSE LET k == CHOOSE i \in live : \A j \in live : j <= i
             IN  SubSeq(ts, 1, k - 1) \o SubSeq(ts, k + 1, Len(ts))

\* useEffect(..., [confirmClear])
ClearTimerEffect(ts, cc2) ==
    IF cc2 = confirmClear THEN ts
    ELSE LET cleaned == IF confirmClear THEN ClearTimeout(ts, "clear") ELSE ts
         IN  IF cc2 THEN Append(cleaned, Timer("clear", NoId, EmptyText)) ELSE cleaned

\* mutant: the effect returns no cleanup
DeleteTimerEffectNoCleanup(ts, cd2, msg2) ==
    IF cd2 = confirmDeleteId /\ msg2 = message THEN ts
    ELSE IF cd2 # NoId THEN Append(ts, Timer("delete", cd2, msg2)) ELSE ts

\* useEffect(..., [confirmDeleteId, message])
DeleteTimerEffect(ts, cd2, msg2) ==
    IF cd2 = confirmDeleteId /\ msg2 = message THEN ts
    ELSE LET cleaned == IF confirmDeleteId # NoId THEN ClearTimeout(ts, "delete") ELSE ts
         IN  IF cd2 # NoId THEN Append(cleaned, Timer("delete", cd2, msg2)) ELSE cleaned

\* useEffect(..., [message]) for the success message
SuccessTimerEffect(ts, msg2) ==
    IF msg2 = message THEN ts
    ELSE LET cleaned == IF Includes(message, SuccessNeedle)
                        THEN ClearTimeout(ts, "success") ELSE ts
         IN  IF Includes(msg2, SuccessNeedle)
             THEN Append(cleaned, Timer("success", NoId, EmptyText)) ELSE cleaned

\* useEffect(..., [fetchRecords]): fetchRecords is a new function when message changed
MountEffect(q, msg2) ==
    IF msg2 = message THEN q ELSE Issue(q, FetchOp(msg2))

\* useEffect(..., [isDBReady, currentPage]): setting canvas.width empties the canvas;
\* the canvas exists while FormView is mounted
CanvasEffect(cv, ready2, page2) ==
    IF page2 # "form" THEN "none"
    ELSE IF page2 # currentPage THEN "blank"
    ELSE IF ready2 # isDBReady THEN "blank"
    ELSE cv

\* one batch of state updates, the render and the effects that follow it
Commit(msg2, ready2, cc2, cd2, page2, cv2, q2, ts2) ==
    /\ message' = msg2
    /\ isDBReady' = ready2
    /\ confirmClear' = cc2
    /\ confirmDeleteId' = cd2
    /\ currentPage' = page2
    /\ canvas' = CanvasEffect(cv2, ready2, page2)
    /\ inflight' = MountEffect(q2, msg2)
    /\ timers' = SuccessTimerEffect(
                    DeleteTimerEffect(ClearTimerEffect(ts2, cc2), cd2, msg2), msg2)

Step(act, id) ==
    last' = [act |-> act, id |-> id, cd |-> confirmDeleteId, cc |-> confirmClear]

\* The operations q stands for: each one in flight, and for each mutation the list
\* refresh its caller starts when it settles.  A completion never raises it.
Load(q) == 2 * BagCardinality(q) - Calls(q, "fetch")

\* User events are taken while the operations they leave pending stay within
\* MaxLoad: the user waits.  Timer callbacks and settling calls are not held back.
WithinLoad == Load(inflight') <= MaxLoad

\* the same with the bounds of the other sessions
WithinBurst == Load(inflight') <= MaxBurst
WithinEdit == Load(inflight') <= MaxEdit

----------------------------------------------------------------------------
(* Initial state: the component mounts on a database left by earlier sessions *)

PriorRecord(key, name) ==
    StoredObject([initialFormData EXCEPT !.completeName = name,
                                         !.designation = <<"Engineer">>,
                                         !.division = <<"R&D">>,
                                         !.signature = "png:ink"], key, 0)

PriorStore == {PriorRecord(1, <<"Ann">>), PriorRecord(2, <<"SURE", "SH">>)}

Init ==
    /\ store = PriorStore
    /\ nextId = Cardinality(store) + 1
    /\ now = 0
    /\ formData = initialFormData
    /\ storedRecords = <<>>
    /\ message = EmptyText
    /\ isDBReady = FALSE
    /\ confirmClear = FALSE
    /\ confirmDeleteId = NoId
    /\ currentPage = "setup"
    /\ signatureCaptured = FALSE
    /\ canvas = "none"
    /\ isDrawing = FALSE
    /\ inflight = SetToBag({FetchOp(EmptyText)})
    /\ timers = <<>>
    /\ assigned = Ids(store)
    /\ last = [act |-> "mount", id |-> NoId, cd |-> NoId, cc |-> FALSE]

----------------------------------------------------------------------------
(* User events *)

\* the tab buttons' onClick
SetCurrentPage(page) ==
    /\ page = "records" \/ page # currentPage
    /\ LET reset == page = "records"
       IN  Commit(message, isDBReady,
                  IF reset THEN FALSE ELSE confirmClear,
                  IF reset THEN NoId ELSE confirmDeleteId,
                  page, canvas, inflight, timers)
    /\ Step("setCurrentPage", NoId)
    /\ UNCHANGED <<store, nextId, assigned, now, formData, storedRecords,
                   signatureCaptured, isDrawing>>

\* the inputs of FormView are mounted on the form page and disabled until the store is ready
FormEnabled == currentPage = "form" /\ isDBReady

\* the confirmations after handleInputChange (setConfirmClear, setConfirmDeleteId)
InputChangeConfirm == [confirmClear |-> FALSE, confirmDeleteId |-> NoId]

handleInputChange(name, value) ==
    /\ FormEnabled
    /\ value # formData[name]
    /\ formData' = [formData EXCEPT ![name] = value]
    /\ Commit(message, isDBReady, InputChangeConfirm.confirmClear,
              InputChangeConfirm.confirmDeleteId, currentPage, canvas, inflight, timers)
    /\ Step("handleInputChange", NoId)
    /\ UNCHANGED <<store, nextId, assigned, now, storedRecords, signatureCaptured, isDrawing>>

\* mutant: the checkbox handler forgets the resets
StatusChangeKeepsConfirm ==
    [confirmClear |-> confirmClear, confirmDeleteId |-> confirmDeleteId]

\* the confirmations after handleStatusChange
StatusChangeConfirm == [confirmClear |-> FALSE, confirmDeleteId |-> NoId]

handleStatusChange(name) ==
    /\ FormEnabled
    /\ formData' = [formData EXCEPT !.status[name] = ~formData.status[name]]
    /\ Commit(message, isDBReady, StatusChangeConfirm.confirmClear,
              StatusChangeConfirm.confirmDeleteId, currentPage, canvas, inflight, timers)
    /\ Step("handleStatusChange", NoId)
    /\ UNCHANGED <<store, nextId, assigned, now, storedRecords, signatureCaptured, isDrawing>>

\* mousedown / touchstart on the canvas
startDrawing ==
    /\ currentPage = "form"
    /\ isDBReady
    /\ ~isDrawing \/ ~signatureCaptured
    /\ isDrawing' = TRUE
    /\ signatureCaptured' = TRUE
    /\ Step("startDrawing", NoId)
    /\ UNCHANGED <<store, nextId, assigned, now, formData, storedRecords, message, isDBReady,
                   confirmClear, confirmDeleteId, currentPage, canvas, inflight, timers>>

\* mousemove / touchmove on the canvas
draw ==
    /\ currentPage = "form"
    /\ isDrawing
    /\ canvas = "blank"
    /\ canvas' = "ink"
    /\ Step("draw", NoId)
    /\ UNCHANGED <<store, nextId, assigned, now, formData, storedRecords, message, isDBReady,
                   confirmClear, confirmDeleteId, currentPage, signatureCaptured,
                   isDrawing, inflight, timers>>

\* mouseup / mouseout / touchend / touchcancel on the canvas
stopDrawing ==
    /\ currentPage = "form"
    /\ isDrawing
    /\ isDrawing' = FALSE
    /\ Step("stopDrawing", NoId)
    /\ UNCHANGED <<store, nextId, assigned, now, formData, storedRecords, message, isDBReady,
                   confirmClear, confirmDeleteId, currentPage, signatureCaptured,
                   canvas, inflight, timers>>

\* what handleClearSignature does to (canvas, signatureCaptured)
ClearedCanvas(cv) == IF cv # "none" THEN "blank" ELSE cv
ClearedCaptured(cv, captured) == IF cv # "none" THEN FALSE ELSE captured

handleClearSignature ==
    /\ FormEnabled
    /\ canvas' = ClearedCanvas(canvas)
    /\ signatureCaptured' = ClearedCaptured(canvas, signatureCaptured)
    /\ Step("handleClearSignature", NoId)
    /\ UNCHANGED <<store, nextId, assigned, now, formData, storedRecords, message, isDBReady,
                   confirmClear, confirmDeleteId, currentPage, isDrawing, inflight,
                   timers>>

\* canvas.toDataURL('image/png')
toDataURL(cv) == IF cv = "ink" THEN "png:ink" ELSE "png:blank"

\* mutant: the required fields are tested without trim()
RequiredNonEmpty ==
    /\ formData.completeName # EmptyText
    /\ formData.designation # EmptyText
    /\ formData.division # EmptyText

RequiredFilled ==
    /\ Trim(formData.completeName) # EmptyText
    /\ Trim(formData.designation) # EmptyText
    /\ Trim(formData.division) # EmptyText

\* the submit button's disabled attribute
SubmitEnabled == currentPage = "form" /\ isDBReady /\ RequiredFilled

AddsInFlight == Calls(inflight, "add")

\* A submit is taken while the key generator, within MaxId, has a key left for
\* every addRecord pending after it.
WithinKeys == nextId + AddsInFlight' <= MaxId + 1

\* handleSubmit up to its await: the message it sets, or the addRecord call it makes
handleSubmitBody ==
    /\ LET say(msg) == Commit(msg, isDBReady, confirmClear, confirmDeleteId,
                              currentPage, canvas, inflight, timers)
       IN  IF ~RequiredFilled THEN say(FieldsMessage)
           ELSE IF ~signatureCaptured THEN say(SignatureMessage)
           ELSE IF canvas = "none" THEN say(NoCanvasMessage)
           ELSE IF ~isDBReady THEN say(NotReadyMessage)
           ELSE Commit(message, isDBReady, confirmClear, confirmDeleteId, currentPage,
                       canvas,
                       Issue(inflight,
                             AddOp([formData EXCEPT !.signature = toDataURL(canvas)],
                                   message)),
                       timers)
    /\ Step("handleSubmit", NoId)
    /\ UNCHANGED <<store, nextId, assigned, now, formData, storedRecords, signatureCaptured,
                   isDrawing>>

\* the form's onSubmit, which the enabled submit button triggers
handleSubmit ==
    /\ SubmitEnabled
    /\ handleSubmitBody
    /\ WithinKeys
    /\ WithinLoad

\* RecordsView renders a delete button per record of storedRecords when the store is ready
ShownIds ==
    IF currentPage = "records" /\ isDBReady
    THEN {storedRecords[i].id : i \in 1..Len(storedRecords)} ELSE {}

\* storedRecords.find(r => r.id === id)?.completeName
RecordName(id) ==
    LET hits == {i \in 1..Len(storedRecords) : storedRecords[i].id = id}
    IN  IF hits = {} THEN <<"undefined">>
        ELSE storedRecords[CHOOSE i \in hits : \A j \in hits : i <= j].completeName

\* mutant: any pending confirmation confirms the clicked record
AnyPendingConfirms(id) == confirmDeleteId # NoId

\* if (confirmDeleteId === id): the click is the second one on this record
IsConfirming(id) == confirmDeleteId = id

\* mutant: the first click leaves the bulk confirmation pending
FirstDeleteClickKeepsClear(id) ==
    [message |-> DeleteWarning(RecordName(id)), confirmDeleteId |-> id,
     confirmClear |-> confirmClear]

\* the state updates of handleDelete's first click
FirstDeleteClick(id) ==
    [message |-> DeleteWarning(RecordName(id)), confirmDeleteId |-> id,
     confirmClear |-> FALSE]

\* handleDelete(id) up to its await
handleDeleteBody(id) ==
    /\ id \in ShownIds
    /\ IF ~isDBReady
       THEN Commit(message, isDBReady, confirmClear, confirmDeleteId, currentPage,
                   canvas, inflight, timers)
       ELSE IF IsConfirming(id)
       THEN Commit(message, isDBReady, confirmClear, confirmDeleteId, currentPage,
                   canvas, Issue(inflight, DeleteOp(id, message)), timers)
       ELSE LET set == FirstDeleteClick(id)
            IN  Commit(set.message, isDBReady, set.confirmClear, set.confirmDeleteId,
                       currentPage, canvas, inflight, timers)
    /\ Step("handleDelete", id)
    /\ UNCHANGED <<store, nextId, assigned, now, formData, storedRecords, signatureCaptured,
                   isDrawing>>

\* a click on the delete button of record id
handleDelete(id) == handleDeleteBody(id) /\ WithinLoad

\* the clear-all button's disabled attribute
ClearAllEnabled == currentPage = "records" /\ isDBReady /\ Len(storedRecords) # 0

\* the state updates of handleClearAll's first click
FirstClearClick ==
    [message |-> ClearWarning, confirmClear |-> TRUE, confirmDeleteId |-> NoId]

\* handleClearAll up to its await
handleClearAllBody ==
    /\ ClearAllEnabled
    /\ IF ~isDBReady
       THEN Commit(message, isDBReady, confirmClear, confirmDeleteId, currentPage,
                   canvas, inflight, timers)
       ELSE IF confirmClear
       THEN Commit(message, isDBReady, confirmClear, confirmDeleteId, currentPage,
                   canvas, Issue(inflight, ClearOp(message)), timers)
       ELSE LET set == FirstClearClick
            IN  Commit(set.message, isDBReady, set.confirmClear, set.confirmDeleteId,
                       currentPage, canvas, inflight, timers)
    /\ Step("handleClearAll", NoId)
    /\ UNCHANGED <<store, nextId, assigned, now, formData, storedRecords, signatureCaptured,
                   isDrawing>>

\* a click on the clear-all button
handleClearAll == handleClearAllBody /\ WithinLoad


----------------------------------------------------------------------------
(* Completion of a pending storage operation *)

\* the sequence without its i-th element
RemoveAt(ts, i) == SubSeq(ts, 1, i - 1) \o SubSeq(ts, i + 1, Len(ts))

\* mutant: a failed fetchRecords empties the failure message if it is displayed
FetchDoneTogglesFailure(op, outcome, rest) ==
    /\ IF outcome.kind = "ok"
       THEN /\ storedRecords' = getAllRecords(store)
            /\ Commit(IF op.keep THEN message ELSE EmptyText,
                      TRUE, confirmClear, confirmDeleteId, currentPage, canvas,
                      rest, timers)
       ELSE /\ storedRecords' = storedRecords
            /\ Commit(IF message = IDB_ERROR_MESSAGE THEN EmptyText
                      ELSE IDB_ERROR_MESSAGE,
                      FALSE, confirmClear, confirmDeleteId, currentPage, canvas,
                      rest, timers)
    /\ UNCHANGED <<store, nextId, assigned, formData, signatureCaptured>>

\* fetchRecords after getAllRecords settles.  The records it is resolved with are the
\* store's contents at the step that delivers them: the readonly transaction of
\* line 80 ends with the delivery of its only request's result, and no write of a
\* transaction opened after it is applied before that.
FetchDone(op, outcome, rest) ==
    /\ IF outcome.kind = "ok"
       THEN /\ storedRecords' = getAllRecords(store)
            /\ Commit(IF op.keep THEN message ELSE EmptyText,
                      TRUE, confirmClear, confirmDeleteId, currentPage, canvas,
                      rest, timers)
       ELSE /\ storedRecords' = storedRecords
            /\ Commit(IDB_ERROR_MESSAGE, FALSE, confirmClear, confirmDeleteId,
                      currentPage, canvas, rest, timers)
    /\ UNCHANGED <<store, nextId, assigned, formData, signatureCaptured>>

\* handleSubmit after addRecord settles
AddDone(op, outcome, rest) ==
    IF Resolves(outcome)
    THEN /\ store' = IF outcome.kind = "ok"
                     THEN addRecord(store, op.rec, GeneratedKey(store, nextId), op.time)
                     ELSE store
         /\ nextId' = IF outcome.kind = "ok" THEN GeneratedKey(store, nextId) + 1
                      ELSE nextId
         /\ assigned' = assigned \cup {GeneratedKey(store, nextId)}
         /\ formData' = initialFormData
         /\ signatureCaptured' = ClearedCaptured(canvas, signatureCaptured)
         /\ storedRecords' = storedRecords
         /\ Commit(IDB_SUCCESS_MESSAGE, isDBReady, FALSE, NoId, currentPage,
                   ClearedCanvas(canvas), Issue(rest, Refetch(op)), timers)
    ELSE /\ Commit(OrElse(ThrownMessage(outcome), IDB_ERROR_MESSAGE), isDBReady,
                   confirmClear, confirmDeleteId, currentPage, canvas, rest, timers)
         /\ UNCHANGED <<store, nextId, assigned, formData, signatureCaptured, storedRecords>>

\* handleDelete after deleteRecord settles
DeleteDone(op, outcome, rest) ==
    /\ IF Resolves(outcome)
       THEN /\ store' = IF outcome.kind = "ok" THEN deleteRecord(store, op.id) ELSE store
            /\ Commit(IDB_DELETE_MESSAGE, isDBReady, confirmClear, NoId, currentPage,
                      canvas, Issue(rest, Refetch(op)), timers)
       ELSE /\ store' = store
            /\ Commit(OrElse(ThrownMessage(outcome), DeleteFallbackMessage), isDBReady,
                      confirmClear, confirmDeleteId, currentPage, canvas, rest, timers)
    /\ UNCHANGED <<nextId, assigned, formData, signatureCaptured, storedRecords>>

\* handleClearAll after deleteAllRecords settles
ClearDone(op, outcome, rest) ==
    /\ IF Resolves(outcome)
       THEN /\ store' = IF outcome.kind = "ok" THEN deleteAllRecords(store) ELSE store
            /\ Commit(IDB_CLEAR_ALL_MESSAGE, isDBReady, FALSE, NoId, currentPage,
                      canvas, Issue(rest, Refetch(op)), timers)
       ELSE /\ store' = store
            /\ Commit(OrElse(ThrownMessage(outcome), ClearFallbackMessage), isDBReady,
                      confirmClear, confirmDeleteId, currentPage, canvas, rest, timers)
    /\ UNCHANGED <<nextId, assigned, formData, signatureCaptured, storedRecords>>

\* const db = await openDB() of a pending call resolves: the call goes on to its
\* store request (addRecord reads Date.now() for the record first) and waits again.
\* Nothing the component holds changes.
Opened(op) ==
    /\ op \in BagToSet(inflight)
    /\ op.stage = "open"
    /\ inflight' = Issue(Without(inflight, op),
                         [op EXCEPT !.stage = "req",
                                    !.time = IF op.op = "add" THEN now ELSE @])
    /\ Step("opened", NoId)
    /\ UNCHANGED <<store, nextId, assigned, now, formData, storedRecords, message,
                   isDBReady, confirmClear, confirmDeleteId, currentPage,
                   signatureCaptured, canvas, isDrawing, timers>>

\* what a call can settle with where it waits: openDB() rejects, or the store
\* request succeeds or fails; a readwrite transaction may abort after its request
\* has succeeded
SettlesWith(op, outcome) ==
    IF op.stage = "open" THEN outcome.kind = "openFail"
    ELSE \/ outcome.kind \in {"ok", "reqFail"}
         \/ outcome.kind = "abort" /\ op.op # "fetch"

\* A pending call settles with the given outcome and its caller resumes.  Every
\* adapter call opens a connection of its own (await openDB()) and nothing in the
\* program orders the calls it has pending.
Complete(op, outcome) ==
    /\ op \in BagToSet(inflight)
    /\ SettlesWith(op, outcome)
    /\ LET rest == Without(inflight, op)
       IN  /\ CASE op.op = "fetch" -> FetchDone(op, outcome, rest)
                [] op.op = "add" -> AddDone(op, outcome, rest)
                [] op.op = "delete" -> DeleteDone(op, outcome, rest)
                [] op.op = "clear" -> ClearDone(op, outcome, rest)
           /\ Step(op.op \o (IF Resolves(outcome) THEN "Done" ELSE "Failed"), op.id)
    /\ UNCHANGED <<now, isDrawing>>

----------------------------------------------------------------------------
(* Timers *)

\* the individual timer's callback: the message is emptied if the message its
\* closure holds is the delete confirmation message
MessageAfterDeleteTimer(t) ==
    IF Includes(t.msg, TrashNeedle) THEN EmptyText ELSE message

\* the callback of the i-th live timer
TimerFireBody(i) ==
    /\ i \in 1..Len(timers)
    /\ LET t == timers[i]
           rest == RemoveAt(timers, i)
       IN  /\ CASE t.kind = "clear" ->
                     Commit(message, isDBReady, FALSE, confirmDeleteId, currentPage,
                            canvas, inflight, rest)
                [] t.kind = "delete" ->
                     Commit(MessageAfterDeleteTimer(t), isDBReady, confirmClear, NoId,
                            currentPage, canvas, inflight, rest)
                [] t.kind = "success" ->
                     Commit(EmptyText, isDBReady, confirmClear, confirmDeleteId,
                            currentPage, canvas, inflight, rest)
           /\ Step(t.kind \o "Timer", t.id)
    /\ UNCHANGED <<store, nextId, assigned, now, formData, storedRecords, signatureCaptured,
                   isDrawing>>

\* the callback of the i-th live timer runs
TimerFire(i) == TimerFireBody(i)

\* time passes
Tick ==
    /\ now < MaxTime
    /\ now' = now + 1
    /\ Step("tick", NoId)
    /\ UNCHANGED <<store, nextId, assigned, formData, storedRecords, message, isDBReady,
                   confirmClear, confirmDeleteId, currentPage, signatureCaptured,
                   canvas, isDrawing, inflight, timers>>

----------------------------------------------------------------------------
(* The whole program: every event of every tab, every pending operation     *)
(* settling, every live timer firing.                                       *)

Next ==
    \/ \E page \in Pages : SetCurrentPage(page)
    \/ \E name \in InputNames : \E value \in InputChoices(name) :
           handleInputChange(name, value)
    \/ \E name \in StatusNames : handleStatusChange(name)
    \/ startDrawing
    \/ draw
    \/ stopDrawing
    \/ handleClearSignature
    \/ handleSubmit
    \/ \E id \in 1..MaxId : handleDelete(id)
    \/ handleClearAll
    \/ \E op \in BagToSet(inflight) : Opened(op)
    \/ \E op \in BagToSet(inflight) : \E outcome \in Outcomes : Complete(op, outcome)
    \/ \E i \in 1..Len(timers) : TimerFire(i)
    \/ Tick

Spec == Init /\ [][Next]_vars

----------------------------------------------------------------------------
(* Sessions.  Next is the whole program; its state space is the product of   *)
(* what the form holds, what the canvas holds and what the record list is    *)
(* doing, which is explored one session at a time: each specification below   *)
(* takes the steps of Next that its user makes.  The clock moves (Tick)       *)
(* where the time a record is saved at is looked at: SpecSign, SpecResubmit,  *)
(* SpecSubmit and SpecAdapter.                                                *)

\* A session of requests on the Saved Records tab: the user changes tabs and
\* leaves the entry form as it is.
NextRecords ==
    \/ \E page \in Pages : SetCurrentPage(page)
    \/ \E id \in 1..MaxId : handleDelete(id)
    \/ handleClearAll
    \/ \E op \in BagToSet(inflight) : Opened(op)
    \/ \E op \in BagToSet(inflight) : \E outcome \in Outcomes : Complete(op, outcome)
    \/ \E i \in 1..Len(timers) : TimerFire(i)

SpecRecords == Init /\ [][NextRecords]_vars

\* the messages setMessage is given in a session on the Saved Records tab
Messages ==
    {EmptyText, IDB_ERROR_MESSAGE, IDB_DELETE_MESSAGE, IDB_CLEAR_ALL_MESSAGE,
     DeleteFallbackMessage, ClearFallbackMessage, ClearWarning}
        \cup RawErrors
        \cup {DeleteWarning(name) :
                 name \in {r.completeName : r \in PriorStore} \cup {<<"undefined">>}}

\* the confirmation timers the two effects can arm
TimerValues ==
    {Timer("clear", NoId, EmptyText)}
        \cup {Timer("delete", id, msg) : id \in 1..MaxId, msg \in Messages}

\* the callback of the live timer t runs
TimerFireIs(t) ==
    \E i \in 1..Len(timers) : timers[i] = t /\ TimerFire(i)

\* A setTimeout callback is run by the event loop unless clearTimeout is called
\* on it first: a timer that an effect's cleanup clears and the effect arms anew
\* is another timer, and starts its delay again.  No adapter call is assumed to
\* settle.
SpecLive ==
    /\ SpecRecords
    /\ \A t \in TimerValues : WF_vars(TimerFireIs(t))

\* A session that edits the form between requests on the Saved Records tab: every
\* input, radio and checkbox, and the submit button; the user never signs.
NextEdit ==
    \/ \E page \in Pages : SetCurrentPage(page)
    \/ \E name \in InputNames : \E value \in InputChoices(name) :
           handleInputChange(name, value)
    \/ \E name \in StatusNames : handleStatusChange(name)
    \/ /\ SubmitEnabled
       /\ handleSubmitBody
       /\ WithinEdit
    \/ \E id \in 1..MaxId : handleDeleteBody(id) /\ WithinEdit
    \/ handleClearAllBody /\ WithinEdit
    \/ \E op \in BagToSet(inflight) : Opened(op)
    \/ \E op \in BagToSet(inflight) : \E outcome \in Outcomes : Complete(op, outcome)
    \/ \E i \in 1..Len(timers) : TimerFire(i)

SpecEdit == Init /\ [][NextEdit]_vars

\* the form with its required text inputs filled in
FilledForm ==
    [initialFormData EXCEPT !.completeName = <<"Bea">>,
                            !.designation = <<"Engineer">>,
                            !.division = <<"R&D">>]

\* A session that signs and saves: the text inputs are filled in, the user draws
\* on the canvas, clears it, changes tabs and submits.
InitSign ==
    /\ store = PriorStore
    /\ nextId = Cardinality(store) + 1
    /\ assigned = Ids(store)
    /\ now = 0
    /\ formData = FilledForm
    /\ storedRecords = getAllRecords(store)
    /\ message = EmptyText
    /\ isDBReady = TRUE
    /\ confirmClear = FALSE
    /\ confirmDeleteId = NoId
    /\ currentPage = "form"
    /\ signatureCaptured = FALSE
    /\ canvas = "blank"
    /\ isDrawing = FALSE
    /\ inflight = EmptyBag
    /\ timers = <<>>
    /\ last = [act |-> "handleInputChange", id |-> NoId, cd |-> NoId, cc |-> FALSE]

NextSign ==
    \/ \E page \in Pages : SetCurrentPage(page)
    \/ startDrawing
    \/ draw
    \/ stopDrawing
    \/ handleClearSignature
    \/ handleSubmit
    \/ \E op \in BagToSet(inflight) : Opened(op)
    \/ \E op \in BagToSet(inflight) : \E outcome \in Outcomes : Complete(op, outcome)
    \/ \E i \in 1..Len(timers) : TimerFire(i)
    \/ Tick

SpecSign == InitSign /\ [][NextSign]_vars


----------------------------------------------------------------------------
(* The record store adapter on its own: its four functions called directly, *)
(* on records of every shape the form can submit, as time passes, up to      *)
(* MaxCalls calls pending at once.  A call waits for openDB() (Opened) and   *)
(* then for its store request.  The result of the last getAllRecords to      *)
(* resolve is kept in storedRecords, the key addRecord resolved with in      *)
(* last.id.                                                                  *)

SampleRecords ==
    { [completeName |-> <<"Jane Doe">>, sex |-> "F", designation |-> <<"Engineer">>,
       division |-> <<"R&D">>,
       status |-> [pwd |-> FALSE, senior |-> FALSE, osy |-> FALSE],
       signature |-> "png:ink"],
      [completeName |-> <<"SURE", "SH">>, sex |-> "M", designation |-> <<"Clerk">>,
       division |-> <<"Records">>,
       status |-> [pwd |-> TRUE, senior |-> FALSE, osy |-> TRUE],
       signature |-> "png:blank"],
      [completeName |-> <<"Jane Doe">>, sex |-> "M", designation |-> <<"Engineer">>,
       division |-> <<"Records">>,
       status |-> [pwd |-> FALSE, senior |-> TRUE, osy |-> FALSE],
       signature |-> "png:ink"] }

InitAdapter ==
    /\ store \in SUBSET {PriorRecord(1, <<"Ann">>)}
    /\ nextId = 2
    /\ assigned = 1..(nextId - 1)
    /\ now = 0
    /\ formData = initialFormData
    /\ storedRecords = <<>>
    /\ message = EmptyText
    /\ isDBReady = FALSE
    /\ confirmClear = FALSE
    /\ confirmDeleteId = NoId
    /\ currentPage = "setup"
    /\ signatureCaptured = FALSE
    /\ canvas = "none"
    /\ isDrawing = FALSE
    /\ inflight = EmptyBag
    /\ timers = <<>>
    /\ last = [act |-> "open", id |-> NoId, cd |-> NoId, cc |-> FALSE]

AppUnchanged ==
    UNCHANGED <<formData, message, isDBReady, confirmClear, confirmDeleteId,
                currentPage, signatureCaptured, canvas, isDrawing, timers>>

\* calls are made while at most MaxCalls are pending after them
WithinCalls == BagCardinality(inflight') <= MaxCalls

\* the function named by op is called: it runs to its await openDB()
Called(op, act) ==
    /\ inflight' = Issue(inflight, op)
    /\ WithinCalls
    /\ Step(act, NoId)
    /\ UNCHANGED <<store, nextId, assigned, now, storedRecords>>
    /\ AppUnchanged

CallAddRecord(recordData) ==
    Called(AddOp(recordData, EmptyText), "callAddRecord") /\ WithinKeys

CallGetAllRecords == Called(FetchOp(EmptyText), "callGetAllRecords")

CallDeleteRecord(id) == Called(DeleteOp(id, EmptyText), "callDeleteRecord")

CallDeleteAllRecords == Called(ClearOp(EmptyText), "callDeleteAllRecords")

\* addRecord's promise settles: resolve(request.result), or a rejection
addRecordSettled(op, outcome) ==
    /\ IF Resolves(outcome)
       THEN /\ store' = IF outcome.kind = "ok"
                        THEN addRecord(store, op.rec, GeneratedKey(store, nextId), op.time)
                        ELSE store
            /\ nextId' = IF outcome.kind = "ok" THEN GeneratedKey(store, nextId) + 1
                         ELSE nextId
            /\ assigned' = assigned \cup {GeneratedKey(store, nextId)}
            /\ Step("addRecord", GeneratedKey(store, nextId))
       ELSE /\ UNCHANGED <<store, nextId, assigned>>
            /\ Step("addRecordFailed", NoId)
    /\ UNCHANGED storedRecords

\* getAllRecords' promise settles
getAllRecordsSettled(op, outcome) ==
    /\ IF outcome.kind = "ok"
       THEN /\ storedRecords' = getAllRecords(store)
            /\ Step("getAllRecords", NoId)
       ELSE /\ storedRecords' = storedRecords
            /\ Step("getAllRecordsFailed", NoId)
    /\ UNCHANGED <<store, nextId, assigned>>

\* deleteRecord's promise settles
deleteRecordSettled(op, outcome) ==
    /\ IF Resolves(outcome)
       THEN /\ store' = IF outcome.kind = "ok" THEN deleteRecord(store, op.id) ELSE store
            /\ Step("deleteRecord", op.id)
       ELSE /\ store' = store
            /\ Step("deleteRecordFailed", op.id)
    /\ UNCHANGED <<nextId, assigned, storedRecords>>

\* deleteAllRecords' promise settles
deleteAllRecordsSettled(op, outcome) ==
    /\ IF Resolves(outcome)
       THEN /\ store' = IF outcome.kind = "ok" THEN deleteAllRecords(store) ELSE store
            /\ Step("deleteAllRecords", NoId)
       ELSE /\ store' = store
            /\ Step("deleteAllRecordsFailed", NoId)
    /\ UNCHANGED <<nextId, assigned, storedRecords>>

\* a pending call settles where it waits, with the given outcome
Settled(op, outcome) ==
    /\ op \in BagToSet(inflight)
    /\ SettlesWith(op, outcome)
    /\ inflight' = Without(inflight, op)
    /\ CASE op.op = "add" -> addRecordSettled(op, outcome)
         [] op.op = "fetch" -> getAllRecordsSettled(op, outcome)
         [] op.op = "delete" -> deleteRecordSettled(op, outcome)
         [] op.op = "clear" -> deleteAllRecordsSettled(op, outcome)
    /\ UNCHANGED now
    /\ AppUnchanged

NextAdapter ==
    \/ \E recordData \in SampleRecords : CallAddRecord(recordData)
    \/ CallGetAllRecords
    \/ \E id \in 1..MaxId : CallDeleteRecord(id)
    \/ CallDeleteAllRecords
    \/ \E op \in BagToSet(inflight) : Opened(op)
    \/ \E op \in BagToSet(inflight) : \E outcome \in Outcomes : Settled(op, outcome)
    \/ Tick

SpecAdapter == InitAdapter /\ [][NextAdapter]_vars


----------------------------------------------------------------------------
(* Requests made back to back: the program from the moment the form has been *)
(* filled in and signed, on every tab, the requests taken while the storage   *)
(* operations they leave pending stay within MaxBurst, so that a request can  *)
(* come before the operations the one before it started have settled, the     *)
(* operations settling in any order.                                          *)

InitBurst ==
    /\ store = {PriorRecord(1, <<"Ann">>)}
    /\ nextId = Cardinality(store) + 1
    /\ assigned = Ids(store)
    /\ now = 0
    /\ formData = FilledForm
    /\ storedRecords = getAllRecords(store)
    /\ message = EmptyText
    /\ isDBReady = TRUE
    /\ confirmClear = FALSE
    /\ confirmDeleteId = NoId
    /\ currentPage = "form"
    /\ signatureCaptured = TRUE
    /\ canvas = "ink"
    /\ isDrawing = FALSE
    /\ inflight = EmptyBag
    /\ timers = <<>>
    /\ last = [act |-> "stopDrawing", id |-> NoId, cd |-> NoId, cc |-> FALSE]

NextBurst ==
    \/ \E page \in Pages : SetCurrentPage(page)
    \/ /\ SubmitEnabled
       /\ handleSubmitBody
       /\ WithinKeys
       /\ WithinBurst
    \/ \E id \in 1..MaxId : handleDeleteBody(id) /\ WithinBurst
    \/ handleClearAllBody /\ WithinBurst
    \/ \E op \in BagToSet(inflight) : Opened(op)
    \/ \E op \in BagToSet(inflight) : \E outcome \in Outcomes : Complete(op, outcome)
    \/ \E i \in 1..Len(timers) : TimerFire(i)

SpecBurst == InitBurst /\ [][NextBurst]_vars

\* The Save Record button clicked again and again on the form filled in and signed,
\* so that a second submit can come before the first one's addRecord has settled.
NextResubmit ==
    \/ handleSubmit
    \/ \E op \in BagToSet(inflight) : Opened(op)
    \/ \E op \in BagToSet(inflight) : \E outcome \in Outcomes : Complete(op, outcome)
    \/ \E i \in 1..Len(timers) : TimerFire(i)
    \/ Tick

SpecResubmit == InitBurst /\ [][NextResubmit]_vars

----------------------------------------------------------------------------
(* handleSubmit on its own: the handler called on the form page in every state *)
(* of the form, whether or not the submit button is enabled, and the storage  *)
(* operations it starts settling.  The timer callbacks are left to the         *)
(* sessions above.                                                             *)

\* what the form may hold, blank texts included
FormFills ==
    [completeName : {EmptyText, <<" ">>, <<"Bea">>, <<" ", "Bea">>},
     sex : SexChoices,
     designation : {EmptyText, <<"Engineer">>},
     division : {EmptyText, <<" ", " ">>, <<"R&D">>},
     status : [pwd : BOOLEAN, senior : BOOLEAN, osy : BOOLEAN],
     signature : {"null"}]

InitSubmit ==
    /\ store = PriorStore
    /\ nextId = Cardinality(store) + 1
    /\ assigned = Ids(store)
    /\ now = 0
    /\ formData \in FormFills
    /\ isDBReady \in BOOLEAN
    /\ storedRecords = IF isDBReady THEN getAllRecords(store) ELSE <<>>
    /\ message = IF isDBReady THEN EmptyText ELSE IDB_ERROR_MESSAGE
    /\ confirmClear = FALSE
    /\ confirmDeleteId = NoId
    /\ currentPage = "form"
    /\ signatureCaptured \in BOOLEAN
    /\ canvas \in {"blank", "ink"}
    /\ canvas = "ink" => signatureCaptured
    /\ isDrawing = FALSE
    /\ inflight = EmptyBag
    /\ timers = <<>>
    /\ last = [act |-> "render", id |-> NoId, cd |-> NoId, cc |-> FALSE]

NextSubmit ==
    \/ (handleSubmitBody /\ WithinKeys /\ WithinBurst)
    \/ \E op \in BagToSet(inflight) : Opened(op)
    \/ \E op \in BagToSet(inflight) : \E outcome \in Outcomes : Complete(op, outcome)
    \/ Tick

SpecSubmit == InitSubmit /\ [][NextSubmit]_vars

----------------------------------------------------------------------------
(* Properties *)

\* the deleteRecord(id) calls in flight, and the deleteAllRecords() calls
DeleteCalls(q, id) ==
    BagCardinality([o \in {c \in BagToSet(q) : c.op = "delete" /\ c.id = id} |-> q[o]])
ClearCalls(q) == Calls(q, "clear")

\* this step issues the call
IssuesDelete(id) == DeleteCalls(inflight', id) > DeleteCalls(inflight, id)
IssuesClear == ClearCalls(inflight') > ClearCalls(inflight)
IssuesNothingDestructive ==
    /\ ~IssuesClear
    /\ \A id \in 1..MaxId : ~IssuesDelete(id)

\* text is a first-click message of handleDelete: the template of line 873 around
\* whatever name the click found in storedRecords (line 872)
IsDeleteWarning(text) ==
    /\ Len(text) >= 4
    /\ text = DeleteWarning(SubSeq(text, 4, Len(text) - 1))

\* C1: deleteRecord(id) is issued only by a handleDelete(id) made while
\* confirmDeleteId = id, and deleteAllRecords() only by a handleClearAll made while
\* confirmClear is true; a request from Idle or for another target than the pending
\* one issues no destructive call.
OnlyConfirmedRequestsDelete ==
    [][ /\ \A id \in 1..MaxId :
               IssuesDelete(id) =>
                   /\ last'.act = "handleDelete"
                   /\ last'.id = id
                   /\ confirmDeleteId = id
        /\ IssuesClear => last'.act = "handleClearAll" /\ confirmClear
        /\ \A id \in 1..MaxId :
               last'.act = "handleDelete" /\ last'.id = id /\ confirmDeleteId # id
                   => IssuesNothingDestructive
        /\ last'.act = "handleClearAll" /\ ~confirmClear => IssuesNothingDestructive
      ]_vars

\* a confirming handleDelete has just issued its deleteRecord
ConfirmedDeleteIssued ==
    /\ last.act = "handleDelete"
    /\ last.cd = last.id
    /\ DeleteCalls(inflight, last.id) = 1

\* the request of the pending deleteRecord(X) call op succeeds and its transaction
\* commits
DeleteCommits(op, X) ==
    /\ op.op = "delete"
    /\ op.id = X
    /\ Complete(op, [kind |-> "ok", text |-> EmptyText])

\* the two clicks of C2: a first handleDelete(X) from Idle leaves the store as it is
\* and enters PendingConfirm(X) with the warning; a second one made while still
\* pending issues deleteRecord(X)
TwoClicksDelete(X) ==
    /\ last'.act = "handleDelete" /\ last'.id = X /\ confirmDeleteId = NoId
         => /\ store' = store
            /\ confirmDeleteId' = X
            /\ message' = DeleteWarning(RecordName(X))
            /\ ~IssuesDelete(X)
    /\ last'.act = "handleDelete" /\ last'.id = X /\ confirmDeleteId = X
         => /\ store' = store
            /\ IssuesDelete(X)
            /\ DeleteCalls(inflight', X) = DeleteCalls(inflight, X) + 1
            /\ BagCardinality(inflight') = BagCardinality(inflight) + 1

\* C2 (as claimed): a first handleDelete(X) from Idle leaves the store as it is and
\* enters PendingConfirm(X) with the warning; a second one made while still pending
\* issues deleteRecord(X); when that call succeeds (handleDelete's await resolves) X
\* is gone from the store and every other record is unchanged.
TwoStepDeletion ==
    [][ \A X \in 1..MaxId :
          /\ TwoClicksDelete(X)
          /\ last'.act = "deleteDone" /\ last'.id = X
               => /\ X \notin Ids(store')
                  /\ store' = {r \in store : r.id # X}
      ]_vars

\* What holds of the two steps: the same, of the calls whose transaction commits.
TwoStepDeletionCommitted ==
    [][ \A X \in 1..MaxId :
          /\ TwoClicksDelete(X)
          /\ \A op \in BagToSet(inflight) :
                DeleteCommits(op, X)
                    => /\ X \notin Ids(store')
                       /\ store' = {r \in store : r.id # X}
      ]_vars

\* C3: confirmClear and a non-null confirmDeleteId never hold together; requesting a
\* per-record deletion clears the global pending state and requesting clear-all
\* clears the per-record one.
AtMostOnePending == ~(confirmClear /\ confirmDeleteId # NoId)

MutualExclusion ==
    /\ []AtMostOnePending
    /\ [][ /\ last'.act = "handleDelete" /\ confirmDeleteId # last'.id
               => ~confirmClear' /\ confirmDeleteId' = last'.id
           /\ last'.act = "handleClearAll" /\ ~confirmClear
               => confirmClear' /\ confirmDeleteId' = NoId
         ]_vars

\* a per-record request has taken over from a pending clear-all
DeleteRequestedWhileClearPending ==
    /\ last.act = "handleDelete"
    /\ last.cc
    /\ confirmDeleteId = last.id
    /\ ~confirmClear

\* C4: a handleDelete(Y) made while PendingConfirm(X), Y # X, leaves the state
\* PendingConfirm(Y), issues no deletion and leaves no timer armed for X; the one
\* timer left is Y's.  Being a first click on Y, it makes a following
\* handleDelete(X) a first click too.
TargetSwitchCancels ==
    [][ \A X, Y \in 1..MaxId :
          (X # Y /\ confirmDeleteId = X /\ last'.act = "handleDelete" /\ last'.id = Y)
              => /\ confirmDeleteId' = Y
                 /\ IssuesNothingDestructive
                 /\ store' = store
                 /\ \A i \in 1..Len(timers') :
                        timers'[i].kind = "delete" => timers'[i].id = Y
                 /\ Cardinality({i \in 1..Len(timers') : timers'[i].kind = "delete"}) = 1
                 /\ ~IsConfirming(X)'
      ]_vars

\* the pending target has just been switched
TargetSwitched ==
    /\ last.act = "handleDelete"
    /\ last.cd # NoId
    /\ last.cd # last.id
    /\ confirmDeleteId = last.id
    /\ \E i \in 1..Len(timers) : timers[i].kind = "delete" /\ timers[i].id = last.id


\* the steps of the user, of the storage operations as they proceed and settle, and
\* of the timers
UserStep ==
    last'.act \in {"setCurrentPage", "handleInputChange", "handleStatusChange",
                   "startDrawing", "draw", "stopDrawing", "handleClearSignature",
                   "handleSubmit", "handleDelete", "handleClearAll"}
SettledOk == last'.act \in {"fetchDone", "addDone", "deleteDone", "clearDone"}
SettledFailed == last'.act \in {"fetchFailed", "addFailed", "deleteFailed", "clearFailed"}
OpenedStep == last'.act = "opened"
TimerStep == last'.act \in {"clearTimer", "deleteTimer", "successTimer"}
SystemStep == OpenedStep \/ SettledOk \/ SettledFailed \/ TimerStep

\* a further delete request or input edit
RequestOrEdit ==
    last'.act \in {"handleDelete", "handleClearAll", "handleInputChange",
                   "handleStatusChange"}

\* the confirmation timers that are live are among TimerValues
TimersAreKnown ==
    \A i \in 1..Len(timers) :
        timers[i].kind \in {"clear", "delete"} => timers[i] \in TimerValues

\* what a confirmation timer's callback does, and what the request after it does:
\* the callback issues no destructive call and leaves the instance Idle, and the
\* next request for the same target is a first click
TimeoutOnlyWarns ==
    [][    /\ last'.act = "deleteTimer"
               => /\ confirmDeleteId' = NoId
                  /\ IssuesNothingDestructive
                  /\ store' = store
                  /\ \A X \in 1..MaxId : ~IsConfirming(X)'
           /\ last'.act = "clearTimer"
               => /\ ~confirmClear'
                  /\ IssuesNothingDestructive
                  /\ store' = store
           /\ \A X \in 1..MaxId :
                 (last.act = "deleteTimer" /\ last.cd = X /\ handleDelete(X))
                     => /\ IssuesNothingDestructive
                        /\ store' = store
                        /\ confirmDeleteId' = X
                        /\ message' = DeleteWarning(RecordName(X))
           /\ (last.act = "clearTimer" /\ handleClearAll)
                 => /\ IssuesNothingDestructive
                    /\ store' = store
                    /\ confirmClear'
         ]_vars

\* C5 (as claimed): a pending per-record or global confirmation after which no delete
\* request and no input edit is made is eventually reset by its timer, whose
\* callback issues no destructive call, and the next request only warns.
TimeoutResets ==
    /\ ([]<>(confirmDeleteId = NoId) \/ []<><<RequestOrEdit>>_vars)
    /\ ([]<>(~confirmClear) \/ []<><<RequestOrEdit>>_vars)
    /\ TimeoutOnlyWarns

\* What holds of the timeout: the same, provided the list refreshes do not go on
\* failing and succeeding in turn for ever (each change of the message clears the
\* per-record timer and arms it anew).
TimeoutResetsOnceStable ==
    /\ \/ []<>(confirmDeleteId = NoId)
       \/ []<><<RequestOrEdit>>_vars
       \/ ([]<><<SettledFailed>>_vars /\ []<><<SettledOk>>_vars)
    /\ ([]<>(~confirmClear) \/ []<><<RequestOrEdit>>_vars)
    /\ TimeoutOnlyWarns

\* C6 (as claimed): after a failed deleteRecord or deleteAllRecords the confirmation
\* that triggered it is Idle.
FailureReturnsToIdle ==
    /\ last.act = "deleteFailed" => confirmDeleteId # last.id
    /\ last.act = "clearFailed" => ~confirmClear

\* C7: right after handleInputChange or handleStatusChange both confirmations are
\* Idle, whatever they were, and the edit issues no destructive call.
EditResetsConfirmations ==
    [][ last'.act \in {"handleInputChange", "handleStatusChange"}
            => /\ ~confirmClear'
               /\ confirmDeleteId' = NoId
               /\ IssuesNothingDestructive
               /\ store' = store
      ]_vars

\* a checkbox edit has reset a pending confirmation
EditedWhilePending ==
    /\ last.act = "handleStatusChange"
    /\ last.cd # NoId \/ last.cc
    /\ confirmDeleteId = NoId
    /\ ~confirmClear

\* C8: every live confirmation timer was armed by the start or the latest restart of
\* the confirmation that is pending now: there is at most one per instance, the
\* per-record one is for the pending target and holds the current message, the bulk
\* one exists only while confirmClear; so the timer that fires resets the
\* confirmation that armed it.
NoStaleTimer ==
    /\ \A i, j \in 1..Len(timers) : timers[i].kind = timers[j].kind => i = j
    /\ \A i \in 1..Len(timers) :
          /\ timers[i].kind = "delete"
               => /\ confirmDeleteId # NoId
                  /\ timers[i].id = confirmDeleteId
                  /\ timers[i].msg = message
          /\ timers[i].kind = "clear" => confirmClear
    /\ last.act = "deleteTimer" => last.id = last.cd /\ last.cd # NoId
    /\ last.act = "clearTimer" => last.cc

\* a restarted timer has fired: the message changed after the request armed it
RestartedTimerFired ==
    /\ last.act = "deleteTimer"
    /\ last.id = last.cd
    /\ message = EmptyText

\* C9 (as claimed): when the per-record timer fires while the first click's warning
\* is the displayed message, the message is emptied together with the reset.
TimeoutClearsWarning ==
    [][ (last'.act = "deleteTimer" /\ IsDeleteWarning(message))
            => (message' = EmptyText /\ confirmDeleteId' = NoId)
      ]_vars

\* what C10 says of the step in which the pending addRecord call op resolves
InsertedAndListed(op) ==
    LET key == last'.id
        listed == getAllRecords(store')
        new == store' \ store
    IN  /\ key \notin assigned
        /\ key \notin Ids(store)
        /\ store \subseteq store'
        /\ Cardinality(new) = 1
        /\ \A r \in new :
               /\ r.id = key
               /\ r.timestamp = op.time
               /\ r.timestamp <= now
               /\ r.completeName = op.rec.completeName
               /\ r.sex = op.rec.sex
               /\ r.designation = op.rec.designation
               /\ r.division = op.rec.division
               /\ r.status = op.rec.status
               /\ r.signature = op.rec.signature
        /\ Cardinality({i \in 1..Len(listed) : listed[i].id = key}) = 1
        /\ Len(listed) = Cardinality(store')

\* C10 (as claimed): addRecord(record) that succeeds (its promise resolves) stores
\* exactly one new record, under the key it resolves with; the key was never handed
\* out before; the record carries the time of the insert and every submitted field
\* as submitted; the records stored before are unchanged; getAllRecords then lists
\* the key once.
InsertThenListAll ==
    [][ \A op \in BagToSet(inflight) : \A outcome \in Outcomes :
          (op.op = "add" /\ Resolves(outcome) /\ Settled(op, outcome))
              => InsertedAndListed(op)
      ]_vars

\* What holds of the insert: the same, of the calls whose transaction commits, as
\* long as no call's transaction has aborted (the key generator goes back to the
\* key an aborted insert resolved with).
InsertThenListAllCommitted ==
    [][ \A op \in BagToSet(inflight) :
          ( /\ op.op = "add"
            /\ Settled(op, [kind |-> "ok", text |-> EmptyText])
            /\ assigned = 1..(nextId - 1) )
              => InsertedAndListed(op)
      ]_vars

\* C11: the sequence getAllRecords() resolves with holds every stored record once,
\* and of any two of them the one inserted later (larger generated key) comes
\* first; on an empty store it resolves with the empty sequence.
NewestFirst ==
    last.act = "getAllRecords"
        => /\ Len(storedRecords) = Cardinality(store)
           /\ {storedRecords[i] : i \in 1..Len(storedRecords)} = store
           /\ \A i, j \in 1..Len(storedRecords) :
                  i < j => storedRecords[i].id > storedRecords[j].id
           /\ store = {} => storedRecords = <<>>

\* a listing of two records inserted at different times, after a deletion
ListedAfterDeletion ==
    /\ last.act = "getAllRecords"
    /\ Len(storedRecords) = 2
    /\ storedRecords[1].timestamp > storedRecords[2].timestamp
    /\ Cardinality(assigned) > 2

\* the two clicks of C12: a handleClearAll made while confirmClear is false leaves the
\* store as it is, issues no adapter call and makes confirmClear true; one made while
\* confirmClear is true issues deleteAllRecords()
TwoClicksClear ==
    /\ (handleClearAll /\ ~confirmClear)
        => /\ store' = store
           /\ IssuesNothingDestructive
           /\ confirmClear'
           /\ confirmDeleteId' = NoId
           /\ message' = ClearWarning
    /\ (handleClearAll /\ confirmClear)
        => /\ IssuesClear
           /\ ClearCalls(inflight') = ClearCalls(inflight) + 1
           /\ store' = store

\* C12 (as claimed): with records listed, a handleClearAll made while confirmClear is
\* false leaves the store as it is, issues no adapter call and makes confirmClear
\* true; one made while confirmClear is true issues deleteAllRecords(); when that call
\* succeeds (handleClearAll's await resolves) the store is empty, so that
\* getAllRecords() yields the empty sequence.
ClearAllTwoStep ==
    [][ /\ TwoClicksClear
        /\ last'.act = "clearDone"
            => /\ store' = {}
               /\ getAllRecords(store') = <<>>
               /\ ClearCalls(inflight) > ClearCalls(inflight')
      ]_vars

\* What holds of the two steps: the same, of the calls whose transaction commits.
ClearAllTwoStepCommitted ==
    [][ /\ TwoClicksClear
        /\ \A op \in BagToSet(inflight) :
              (op.op = "clear" /\ Complete(op, [kind |-> "ok", text |-> EmptyText]))
                  => /\ store' = {}
                     /\ getAllRecords(store') = <<>>
                     /\ ClearCalls(inflight) > ClearCalls(inflight')
      ]_vars

\* C13: deleteRecord(id) on a store that holds no record of that id resolves and
\* leaves the store as it is.
DeleteOneIdempotent ==
    [][ \A op \in BagToSet(inflight) :
          ( /\ op.op = "delete"
            /\ \E outcome \in Outcomes : Resolves(outcome) /\ Settled(op, outcome)
            /\ op.id \notin Ids(store) )
              => /\ store' = store
                 /\ last'.act = "deleteRecord"
      ]_vars

\* deleteRecord has resolved for an id the key generator has not reached, which the
\* non-empty store therefore did not hold when the call was made
DeletedAbsentId ==
    /\ last.act = "deleteRecord"
    /\ last.id >= nextId
    /\ store # {}


\* C14: a handleSubmit called while a required text field is blank after trim(), or
\* while signatureCaptured is false, or while isDBReady is false, calls no addRecord,
\* leaves the store and formData as they are and sets one of the validation messages.
ValidationNeverReachesAdapter ==
    [][ ( /\ handleSubmitBody
          /\ \/ Trim(formData.completeName) = EmptyText
             \/ Trim(formData.designation) = EmptyText
             \/ Trim(formData.division) = EmptyText
             \/ ~signatureCaptured
             \/ ~isDBReady )
            => /\ Calls(inflight', "add") = Calls(inflight, "add")
               /\ store' = store
               /\ nextId' = nextId
               /\ formData' = formData
               /\ message' \in {FieldsMessage, SignatureMessage, NotReadyMessage}
      ]_vars

\* a complete, signed form was refused because the store is not ready
RefusedNotReady ==
    /\ last.act = "handleSubmit"
    /\ message = NotReadyMessage
    /\ signatureCaptured
    /\ Trim(formData.completeName) # EmptyText
    /\ ~isDBReady
    /\ Calls(inflight, "add") = 0


\* C15 (as claimed): whichever adapter operation fails, and whether opening the
\* database or the store request failed, the message displayed is IDB_ERROR_MESSAGE.
SingleGenericErrorMessage ==
    last.act \in {"fetchFailed", "addFailed", "deleteFailed", "clearFailed"}
        => message = IDB_ERROR_MESSAGE


\* C16 (as claimed): a confirming request leaves the instance Idle, and no second
\* deleteRecord(id) or deleteAllRecords() call is issued while the one the
\* confirmation triggered is still pending.
OneCallPerConfirmation ==
    /\ \A id \in 1..MaxId : DeleteCalls(inflight, id) <= 1
    /\ ClearCalls(inflight) <= 1

\* C18 (as claimed): when two addRecord calls resolve one right after the other, the
\* second having been submitted before the first resolved, the record the second
\* inserts does not repeat the field values of the record the first inserted.
OneRecordPerForm ==
    [][ (last.act = "addDone" /\ last'.act = "addDone")
            => \A r \in store, r2 \in store' \ store :
                   r.id = nextId - 1
                       => ~ /\ r2.completeName = r.completeName
                            /\ r2.sex = r.sex
                            /\ r2.designation = r.designation
                            /\ r2.division = r.division
                            /\ r2.status = r.status
                            /\ r2.signature = r.signature
      ]_vars


\* the success messages and the confirmation warnings
IsPreservedMessage(text) ==
    \/ text \in {IDB_SUCCESS_MESSAGE, IDB_DELETE_MESSAGE, IDB_CLEAR_ALL_MESSAGE,
                 ClearWarning}
    \/ IsDeleteWarning(text)

\* C17 (as claimed): a fetchRecords that succeeds while a success message or a
\* confirmation warning is displayed leaves that message displayed.
RefreshPreservesMessages ==
    [][ (last'.act = "fetchDone" /\ IsPreservedMessage(message))
            => message' = message
      ]_vars

\* C19 (as claimed): whenever the signature canvas is cleared or created anew,
\* signatureCaptured is false afterwards, so that the flag is never true over a
\* canvas that has received no stroke since.
SignatureFlagMatchesCanvas ==
    [][ (canvas' = "blank" /\ canvas # "blank") => ~signatureCaptured' ]_vars

\* C20 (as claimed): once no storage operation and no list refresh is pending,
\* storedRecords is the store's contents, newest first, whatever requests were made
\* and in whatever order the operations settled.
ListConverges ==
    inflight = EmptyBag => storedRecords = getAllRecords(store)

\* What holds of the list: the same, when the last list refresh to settle succeeded
\* (isDBReady).
ListConvergesWhenReady ==
    (inflight = EmptyBag /\ isDBReady) => storedRecords = getAllRecords(store)

\* C21: the refreshes that message changes start do not keep each other going: in
\* a behaviour in which, from some point on, the storage operations all succeed, or
\* all fail, the program's own steps (operations settling, timer callbacks, each of
\* which may start a refresh) go on for ever only if the user's actions do; after
\* the user's last action finitely many refreshes are started and settle.
CascadeQuiesces ==
    /\ \/ []<><<SettledFailed>>_vars
       \/ []<><<UserStep>>_vars
       \/ <>[][~SystemStep]_vars
    /\ \/ []<><<SettledOk>>_vars
       \/ []<><<UserStep>>_vars
       \/ <>[][~SystemStep]_vars

\* the refresh started by the emptying of a click-again warning has settled, and
\* nothing is pending
CascadeSettled ==
    /\ last.act = "fetchDone"
    /\ inflight = EmptyBag
    /\ message = EmptyText
    /\ confirmDeleteId # NoId


====
